---- MODULE Spec2Model ----
(***************************************************************************)
(* Long-short equity algorithm of src/Trading_Algo.py.                     *)
(*                                                                         *)
(* The file is written against a hosted pipeline / optimizer API.  The     *)
(* calls it makes (winsorize, zscore, top, bottom, schedule_function,      *)
(* order_optimal_portfolio) are modelled by what the call computes, at the *)
(* line of the call.  Real numbers are kept as integers: weights in units  *)
(* of 1/WeightScale of the portfolio value, z-scores in units of 1/ZScale. *)
(***************************************************************************)
EXTENDS Integers, Sequences, FiniteSets, TLC

VARIABLES
    \* ---- make_pipeline: selection of the long and short candidates
    universe,          \* QTradableStocksUS() on the date: a set of assets
    combined_factor,   \* combined_factor per asset, a number or NaN
    pipe,              \* the pipeline output frame, or None before it ran
    \* ---- make_pipeline: the sum of the seven z-scored factors
    raw,               \* raw[f][a]: input of factor term f for asset a, or NaN
    \* ---- winsorize
    wrow,              \* a factor row (sequence of numbers and NaN)
    wonce,             \* the row winsorized once, or None
    wtwice,            \* the row winsorized twice, or None
    \* ---- the algorithm's context and the execution collaborator
    phase,             \* position in the trading day
    pipeline_data,     \* context.pipeline_data
    risk_loadings,     \* context.risk_loadings
    risk_output,       \* output of the 'risk_factors' pipeline
    target,            \* TargetPortfolio held by the execution collaborator
    last_request,      \* today's order_optimal_portfolio call, or None
    error,             \* exception that ended the algorithm, or NoError
    recorded,          \* last value passed to algo.record, or None
    \* ---- the scheduler
    dow,               \* day of the week of the current session, 1..5
    session,           \* "full" or "half"
    slot,              \* position of the clock in the session
    prior_session,     \* TRUE when the calendar week already had a session
    first_simulated,   \* TRUE when this week's first session was simulated
    rebalance_calls,   \* calls of rebalance in the current week
    record_calls,      \* calls of record_vars in the current session
    weeks              \* number of week changes simulated

pipeVars   == <<universe, combined_factor, pipe>>
factorVars == <<raw>>
winVars    == <<wrow, wonce, wtwice>>
algoVars   == <<phase, pipeline_data, risk_loadings, risk_output, target,
                last_request, error, recorded>>
schedVars  == <<dow, session, slot, prior_session, first_simulated,
                rebalance_calls, record_calls, weeks>>
vars == <<pipeVars, factorVars, winVars, algoVars, schedVars>>

-----------------------------------------------------------------------------
(* Bounds of the model *)

NumAssets == 3          \* assets known to the platform: 1..NumAssets
MaxScore  == 1          \* combined scores range over -MaxScore..MaxScore

(* Program constants *)

TOTAL_POSITIONS == 3

Assets == 1..NumAssets
\* A missing value (float NaN): a value outside every range of numbers used.
NaN == 0 - 999999
\* An optional value: None, or Some(x).
None == <<>>
Some(x) == <<x>>
IsSome(o) == o # <<>>
The(o) == o[1]
ScoreVals == (0 - MaxScore)..MaxScore
IsNum(x) == x # NaN

RECURSIVE SumOver(_, _)
SumOver(f, S) ==
    IF S = {} THEN 0
    ELSE LET x == CHOOSE y \in S : TRUE IN f[x] + SumOver(f, S \ {x})

Abs(x) == IF x < 0 THEN 0 - x ELSE x
Min(a, b) == IF a < b THEN a ELSE b

-----------------------------------------------------------------------------
(* make_pipeline, lines 87-101: top / bottom selection and the screen *)

\* Assets that take part in a masked rank: in the mask, with a score.
Ranked(cf, mask) == {a \in mask : IsNum(cf[a])}

\* Factor.rank(ascending, mask), ordinal method: ties go to the lower asset id.
Rank(cf, mask, a, ascending) ==
    1 + Cardinality({b \in Ranked(cf, mask) :
            \/ (IF ascending THEN cf[b] < cf[a] ELSE cf[b] > cf[a])
            \/ (cf[b] = cf[a] /\ b < a)})

NumLongsAll == TOTAL_POSITIONS
NumLongs == TOTAL_POSITIONS \div 2
NumShorts == TOTAL_POSITIONS \div 2

\* combined_factor.top(N, mask=universe)
Top(cf, mask, N) == {a \in Ranked(cf, mask) : Rank(cf, mask, a, FALSE) <= N}
\* combined_factor.bottom(N, mask=universe)
Bottom(cf, mask, N) == {a \in Ranked(cf, mask) : Rank(cf, mask, a, TRUE) <= N}

Longs(cf, mask) == Top(cf, mask, NumLongs)
Shorts(cf, mask) == Bottom(cf, mask, NumShorts)

ScreenLongsOnly(cf, mask) == Longs(cf, mask)
\* long_short_screen = (longs | shorts)
Screen(cf, mask) == Longs(cf, mask) \cup Shorts(cf, mask)

\* Pipeline(columns={longs, shorts, combined_factor}, screen=long_short_screen)
make_pipeline(cf, mask) ==
    [a \in Screen(cf, mask) |->
        [longs |-> a \in Longs(cf, mask),
         shorts |-> a \in Shorts(cf, mask),
         combined_factor |-> cf[a]]]

Rows(frame) == DOMAIN frame
LongRows(frame) == {a \in Rows(frame) : frame[a].longs}
ShortRows(frame) == {a \in Rows(frame) : frame[a].shorts}

-----------------------------------------------------------------------------
(* Values of the variables a specification does not use *)

NoError == "NoError"

PipeIdle ==
    /\ universe = {}
    /\ combined_factor = [a \in Assets |-> NaN]
    /\ pipe = None

FactorIdle ==
    /\ raw = <<>>

WinIdle ==
    /\ wrow = <<>>
    /\ wonce = None
    /\ wtwice = None

AlgoIdle ==
    /\ phase = "idle"
    /\ pipeline_data = None
    /\ risk_loadings = None
    /\ risk_output = [a \in Assets |-> 0]
    /\ target = [a \in Assets |-> 0]
    /\ last_request = None
    /\ error = NoError
    /\ recorded = None

SchedIdle ==
    /\ dow = 1
    /\ session = "full"
    /\ slot = "idle"
    /\ prior_session = FALSE
    /\ first_simulated = FALSE
    /\ rebalance_calls = 0
    /\ record_calls = 0
    /\ weeks = 0

-----------------------------------------------------------------------------
(* Specification of the candidate selection: every universe and every      *)
(* assignment of combined scores, then the pipeline run.                    *)

InitPipe ==
    /\ universe \in SUBSET Assets
    /\ combined_factor \in [Assets -> ScoreVals \cup {NaN}]
    /\ pipe = None
    /\ FactorIdle /\ WinIdle /\ AlgoIdle /\ SchedIdle

RunPipeline ==
    /\ pipe = None
    /\ pipe' = Some(make_pipeline(combined_factor, universe))
    /\ UNCHANGED <<universe, combined_factor, factorVars, winVars, algoVars,
                   schedVars>>

NextPipe == RunPipeline

SpecPipe == InitPipe /\ [][NextPipe]_vars

Valid == Ranked(combined_factor, universe)
Score(a) == combined_factor[a]

\* C1: the long candidate set has at most ceil(TOTAL_POSITIONS/2) securities
\* and the short candidate set at most floor(TOTAL_POSITIONS/2), for every
\* universe and every assignment of combined scores.
C1_CandidateBounds ==
    IsSome(pipe) =>
        /\ Cardinality(LongRows(The(pipe))) <= (TOTAL_POSITIONS + 1) \div 2
        /\ Cardinality(ShortRows(The(pipe))) <= TOTAL_POSITIONS \div 2

C1_Witness ==
    /\ IsSome(pipe)
    /\ Cardinality(Valid) = NumAssets
    /\ Cardinality(LongRows(The(pipe))) = TOTAL_POSITIONS \div 2
    /\ Cardinality(ShortRows(The(pipe))) = TOTAL_POSITIONS \div 2

-----------------------------------------------------------------------------
(* Factor.winsorize(min_percentile=0.05, max_percentile=0.95), lines 64-74: *)
(* the values of a row below / above the percentile cutoffs are set to the  *)
(* value at the cutoff; missing values stay missing.                        *)

MIN_PERCENTILE == 5        \* percent
MAX_PERCENTILE == 95       \* percent

MaxRowLen == 21            \* longest factor row
MaxVal    == 2             \* raw factor values range over 0..MaxVal

Indices(row) == 1..Len(row)
NonNan(row) == {i \in Indices(row) : IsNum(row[i])}

\* argsort: ascending, missing values last, equal keys by position.
SortsBefore(row, j, i) ==
    IF IsNum(row[j]) /\ IsNum(row[i])
    THEN row[j] < row[i] \/ (row[j] = row[i] /\ j < i)
    ELSE IF IsNum(row[j]) = IsNum(row[i]) THEN j < i ELSE IsNum(row[j])

SortPos(row) ==
    [i \in Indices(row) |->
        1 + Cardinality({j \in Indices(row) : SortsBefore(row, j, i)})]

Argsort(row) ==
    LET pos == SortPos(row)
    IN  [k \in Indices(row) |-> CHOOSE i \in Indices(row) : pos[i] = k]

\* lower_cutoff = int(min_percentile * nonnan_count)
LowerCutoff(n) == (MIN_PERCENTILE * n) \div 100
\* upper_cutoff = int(ceil(nonnan_count * max_percentile))
UpperCutoff(n) == (MAX_PERCENTILE * n + 99) \div 100

\* Position in the sort order (from 1) of the entry whose value replaces the
\* lowest lower_cutoff entries: a[idx[:lower_cutoff]] = a[idx[lower_cutoff]].
LowerSourceNext(k) == k + 2
LowerSource(k) == k + 1
\* ... and the highest: a[idx[upper_cutoff:]] = a[idx[upper_cutoff - 1]].
UpperSource(u) == u

winsorize(row) ==
    LET n   == Cardinality(NonNan(row))
        pos == SortPos(row)
        idx == Argsort(row)
        k   == LowerCutoff(n)
        u   == UpperCutoff(n)
        a   == [i \in Indices(row) |->
                    IF pos[i] <= k THEN row[idx[LowerSource(k)]] ELSE row[i]]
    IN  IF u < n
        THEN [i \in Indices(row) |->
                    IF pos[i] > u /\ pos[i] <= n THEN a[idx[UpperSource(u)]]
                    ELSE a[i]]
        ELSE a

(* Rows of the winsorize specification: every multiset of values and      *)
(* missing entries of the lengths around the first length that is clipped, *)
(* laid out ascending or descending.                                        *)
RowLens == {1, MaxRowLen - 1, MaxRowLen}
RowVals == 0..MaxVal

\* The ascending row with counts[v] entries of value v, then missing entries.
AscendingRow(n, counts) ==
    [i \in 1..n |->
        LET below == {v \in RowVals :
                        SumOver(counts, {w \in RowVals : w <= v}) >= i}
        IN  IF below = {} THEN NaN
            ELSE CHOOSE v \in below : \A w \in below : v <= w]

Reversed(row) == [i \in Indices(row) |-> row[Len(row) + 1 - i]]

InitWin ==
    /\ \E n \in RowLens :
         \E counts \in [RowVals -> 0..n] :
            /\ SumOver(counts, RowVals) <= n
            /\ \E descending \in BOOLEAN :
                 wrow = IF descending THEN Reversed(AscendingRow(n, counts))
                        ELSE AscendingRow(n, counts)
    /\ wonce = None
    /\ wtwice = None
    /\ PipeIdle /\ FactorIdle /\ AlgoIdle /\ SchedIdle

WinsorizeOnce ==
    /\ wonce = None
    /\ wonce' = Some(winsorize(wrow))
    /\ UNCHANGED <<wrow, wtwice, pipeVars, factorVars, algoVars, schedVars>>

WinsorizeAgain ==
    /\ IsSome(wonce) /\ wtwice = None
    /\ wtwice' = Some(winsorize(The(wonce)))
    /\ UNCHANGED <<wrow, wonce, pipeVars, factorVars, algoVars, schedVars>>

NextWin == WinsorizeOnce \/ WinsorizeAgain

SpecWin == InitWin /\ [][NextWin]_vars

SameShape(r1, r2) ==
    /\ Len(r1) = Len(r2)
    /\ \A i \in Indices(r1) : IsNum(r1[i]) = IsNum(r2[i])

\* C7: winsorizing at the [5th, 95th] percentile bounds is idempotent, and
\* neither application drops an entry: the row keeps its length and every
\* entry that had a value still has one.
C7_WinsorizeIdempotent ==
    /\ IsSome(wonce) => SameShape(wrow, The(wonce))
    /\ IsSome(wtwice) =>
        /\ The(wtwice) = The(wonce)
        /\ SameShape(wrow, The(wtwice))

\* A row that the first application clips at both ends, winsorized twice.
C7_Witness ==
    /\ IsSome(wtwice)
    /\ \E i \in Indices(wrow) : IsNum(wrow[i]) /\ The(wonce)[i] > wrow[i]
    /\ \E i \in Indices(wrow) : IsNum(wrow[i]) /\ The(wonce)[i] < wrow[i]
    /\ \E i \in Indices(wrow) : ~IsNum(wrow[i])

-----------------------------------------------------------------------------
(* make_pipeline, lines 55-85: the seven factor terms, each winsorized and *)
(* z-scored over the assets of the date, and their sum.                    *)

NUM_FACTORS == 7     \* value, quality, sentiment_score, sustainable_growth_rate,
                     \* working_capital_per_share, growth_score, total_revenue
Factors == 1..NUM_FACTORS

ZScale == 100        \* z-scores are kept in units of 1/ZScale

\* Integer square root, by bisection: the r with r*r <= m < (r+1)*(r+1).
RECURSIVE IsqrtIn(_, _, _)
IsqrtIn(m, lo, hi) ==
    IF hi - lo <= 1 THEN lo
    ELSE LET mid == (lo + hi) \div 2
         IN  IF mid * mid <= m THEN IsqrtIn(m, mid, hi) ELSE IsqrtIn(m, lo, mid)

Isqrt(m) == IsqrtIn(m, 0, m + 1)

\* Entries that enter the mean and the standard deviation (nanmean, nanstd).
ZPresent(row) == NonNan(row)

\* Value a missing entry contributes to the statistics (it contributes none).
ZValue(row, i) == IF IsNum(row[i]) THEN row[i] ELSE 0

\* Factor.zscore(): (x - mean) / std over the entries present, population
\* standard deviation; missing stays missing, and a row without spread has
\* no z-score (0/0).
zscore(row) ==
    LET P  == ZPresent(row)
        n  == Cardinality(P)
        x  == [i \in Indices(row) |-> ZValue(row, i)]
        s  == SumOver(x, P)
        q  == SumOver([i \in Indices(row) |-> x[i] * x[i]], P)
        V  == n * q - s * s
    IN  [i \in Indices(row) |->
            IF ~IsNum(row[i]) \/ V = 0 THEN NaN
            ELSE LET d == n * x[i] - s
                     r == Isqrt((d * d * ZScale * ZScale) \div V)
                 IN  IF d >= 0 THEN r ELSE 0 - r]

\* Float addition: a missing operand makes the sum missing.
AddSkipMissing(x, y) ==
    IF ~IsNum(x) THEN y ELSE IF ~IsNum(y) THEN x ELSE x + y
Add(x, y) == IF IsNum(x) /\ IsNum(y) THEN x + y ELSE NaN

\* One term of the sum: <factor>.winsorize(...).zscore()
Term(rawf) == zscore(winsorize(rawf))

\* combined_factor = term 1 + term 2 + ... + term 7, left to right
RECURSIVE SumTerms(_, _, _)
SumTerms(terms, k, a) ==
    IF k = 1 THEN terms[1][a]
    ELSE Add(SumTerms(terms, k - 1, a), terms[k][a])

CombinedFactor(inputs) ==
    LET terms == [f \in Factors |-> Term(inputs[f])]
    IN  [a \in Assets |-> SumTerms(terms, NUM_FACTORS, a)]

(* Inputs of the factor specification: a base column of zeros and ones,     *)
(* shifted per factor so that the terms differ and range over 0..MaxVal,    *)
(* with at most two inputs missing.                                         *)
Cells == Factors \X Assets

CellOrder(c, d) == c[1] < d[1] \/ (c[1] = d[1] /\ c[2] <= d[2])

RawInputs(base, missing) ==
    [f \in Factors |->
        [a \in Assets |->
            IF <<f, a>> \in missing THEN NaN
            ELSE (base[a] + (f - 1) * a) % (MaxVal + 1)]]

InitFactor ==
    /\ \E base \in [Assets -> {0, 1}] :
         \E c1 \in Cells : \E c2 \in {c \in Cells : CellOrder(c1, c)} :
            \E m \in {{}, {c1}, {c1, c2}} \ {{c2}} :
                raw = RawInputs(base, m)
    /\ universe = Assets
    /\ combined_factor = [a \in Assets |-> NaN]
    /\ pipe = None
    /\ WinIdle /\ AlgoIdle /\ SchedIdle

\* The pipeline engine computes the columns and applies the screen.
ComputePipeline ==
    /\ pipe = None
    /\ combined_factor' = CombinedFactor(raw)
    /\ pipe' = Some(make_pipeline(combined_factor', universe))
    /\ UNCHANGED <<universe, raw, winVars, algoVars, schedVars>>

NextFactor == ComputePipeline

SpecFactor == InitFactor /\ [][NextFactor]_vars

MissingTerms(a) == {f \in Factors : ~IsNum(raw[f][a])}

\* Sum of the z-scores of asset a on the factors whose input it has.
RECURSIVE PartialScore(_, _)
PartialScore(a, F) ==
    IF F = {} THEN 0
    ELSE LET f == CHOOSE g \in F : TRUE
         IN  Add(Term(raw[f])[a], PartialScore(a, F \ {f}))

\* C9 as stated: a security with exactly one missing factor input is left
\* out of that factor's statistics, and still gets as combined score the sum
\* of its z-scores on the remaining factors, so it stays eligible.
C9_ScoreFromRemainingFactors ==
    IsSome(pipe) =>
        \A a \in Assets :
            (/\ Cardinality(MissingTerms(a)) = 1
             /\ IsNum(PartialScore(a, Factors \ MissingTerms(a)))) =>
                    /\ combined_factor[a] =
                            PartialScore(a, Factors \ MissingTerms(a))
                    /\ a \in Ranked(combined_factor, universe)

\* C9 as the code has it: a security with a missing input in one (or more)
\* of the seven factors is left out of that factor's statistics, its z-score
\* on that factor is missing, its combined score is missing, and it is in
\* neither the longs nor the shorts.
C9_MissingInputExcludes ==
    IsSome(pipe) =>
        \A a \in Assets : \A f \in MissingTerms(a) :
            /\ a \notin ZPresent(winsorize(raw[f]))
            /\ ~IsNum(Term(raw[f])[a])
            /\ ~IsNum(combined_factor[a])
            /\ a \notin Rows(The(pipe))

\* One input of security 1 is missing, every other security has a score.
C9_Witness ==
    /\ IsSome(pipe)
    /\ Cardinality(MissingTerms(1)) = 1
    /\ IsNum(PartialScore(1, Factors \ MissingTerms(1)))
    /\ \A a \in Assets \ {1} : IsNum(combined_factor[a])
    /\ Rows(The(pipe)) # {}

-----------------------------------------------------------------------------
(* rebalance, lines 115-144, and the optimizer it calls.  Weights are in    *)
(* units of 1/WeightScale of the portfolio value.                           *)

WeightScale == 2 * TOTAL_POSITIONS

MAX_GROSS_LEVERAGE == 1 * WeightScale
MAX_SHORT_POSITION_SIZE == (2 * WeightScale) \div TOTAL_POSITIONS
MAX_LONG_POSITION_SIZE == (2 * WeightScale) \div TOTAL_POSITIONS

\* objective = opt.MaximizeAlpha(pipeline_data.combined_factor)
MaximizeAlpha(frame) == [a \in Rows(frame) |-> frame[a].combined_factor]

ConstraintsNoDollarNeutral(loadings) ==
    << [kind |-> "MaxGrossExposure", max |-> MAX_GROSS_LEVERAGE],
       [kind |-> "RiskModelExposure", loadings |-> loadings, version |-> 0],
       [kind |-> "PositionConcentration",
        min |-> 0 - MAX_SHORT_POSITION_SIZE, max |-> MAX_LONG_POSITION_SIZE] >>

ConstraintsGrossOnly(loadings) ==
    << [kind |-> "MaxGrossExposure", max |-> MAX_GROSS_LEVERAGE] >>

\* constraints = [] and the four appends
Constraints(loadings) ==
    << [kind |-> "MaxGrossExposure", max |-> MAX_GROSS_LEVERAGE],
       [kind |-> "DollarNeutral"],
       [kind |-> "RiskModelExposure", loadings |-> loadings, version |-> 0],
       [kind |-> "PositionConcentration",
        min |-> 0 - MAX_SHORT_POSITION_SIZE, max |-> MAX_LONG_POSITION_SIZE] >>

Gross(w) == SumOver([a \in DOMAIN w |-> Abs(w[a])], DOMAIN w)
Net(w) == SumOver(w, DOMAIN w)
Exposure(w, loadings) ==
    SumOver([a \in DOMAIN w |-> w[a] * loadings[a]], DOMAIN w)

\* Whether the weights w meet the constraint c.  The version-0 risk model
\* keeps the exposure to a sector within 18% of the portfolio value.
Satisfies(w, c) ==
    CASE c.kind = "MaxGrossExposure" -> Gross(w) <= c.max
      [] c.kind = "DollarNeutral" -> Net(w) = 0
      [] c.kind = "RiskModelExposure" ->
            Abs(Exposure(w, c.loadings)) * 100 <= 18 * WeightScale
      [] c.kind = "PositionConcentration" ->
            \A a \in DOMAIN w : c.min <= w[a] /\ w[a] <= c.max

Feasible(index, constraints) ==
    {w \in [index -> (0 - WeightScale)..WeightScale] :
        \A i \in 1..Len(constraints) : Satisfies(w, constraints[i])}

Alpha(w, alphas) == SumOver([a \in DOMAIN w |-> w[a] * alphas[a]], DOMAIN w)

\* algo.order_optimal_portfolio(objective, constraints): the outcomes of the
\* call.  The optimizer returns any feasible portfolio of maximal alpha over
\* the assets of the objective, and raises InfeasibleConstraints when there
\* is none; an exception leaves the portfolio as it was.
order_optimal_portfolio(alphas, constraints) ==
    LET request == [alphas |-> alphas, constraints |-> constraints]
        F == Feasible(DOMAIN alphas, constraints)
    IN  IF F = {}
        THEN {[request |-> Some(request), raised |-> "InfeasibleConstraints",
               weights |-> None]}
        ELSE {[request |-> Some(request), raised |-> NoError,
               weights |-> Some(w)] :
                w \in {v \in F : \A x \in F : Alpha(x, alphas) <= Alpha(v, alphas)}}

rebalance_skip_empty(frame, loadings) ==
    IF Rows(frame) = {}
    THEN {[request |-> None, raised |-> NoError, weights |-> None]}
    ELSE order_optimal_portfolio(MaximizeAlpha(frame), Constraints(loadings))

\* rebalance(context, data): the outcomes of the handler
rebalance(frame, loadings) ==
    order_optimal_portfolio(MaximizeAlpha(frame), Constraints(loadings))

\* The target portfolio over all assets: what is not ordered is not held.
Portfolio(w) == [a \in Assets |-> IF a \in DOMAIN w THEN w[a] ELSE 0]

\* Every frame the 'long_short_equity_template' pipeline can output.
PipelineOutputs ==
    {make_pipeline(cf, u) :
        cf \in [Assets -> ScoreVals \cup {NaN}], u \in SUBSET Assets}

-----------------------------------------------------------------------------
(* Specification of the algorithm on its rebalance dates: the state after  *)
(* initialize, then before_trading_start, rebalance and record_vars every  *)
(* date.                                                                    *)

Init ==
    /\ phase = "before_trading_start"
    /\ pipeline_data = None
    /\ risk_loadings = None
    /\ risk_output \in [Assets -> {0, 1}]
    /\ target = [a \in Assets |-> 0]
    /\ last_request = None
    /\ error = NoError
    /\ recorded = None
    /\ PipeIdle /\ FactorIdle /\ WinIdle /\ SchedIdle

\* before_trading_start(context, data), lines 104-108
BeforeTradingStart ==
    /\ phase = "before_trading_start" /\ error = NoError
    /\ \E frame \in PipelineOutputs : pipeline_data' = Some(frame)
    /\ risk_loadings' = Some(risk_output)
    /\ last_request' = None
    /\ phase' = "rebalance"
    /\ UNCHANGED <<risk_output, target, error, recorded, pipeVars, factorVars,
                   winVars, schedVars>>

\* rebalance(context, data), lines 115-144
Rebalance ==
    /\ phase = "rebalance" /\ error = NoError
    /\ \E o \in rebalance(The(pipeline_data), The(risk_loadings)) :
        /\ last_request' = o.request
        /\ error' = o.raised
        /\ target' = IF IsSome(o.weights) THEN Portfolio(The(o.weights))
                     ELSE target
    /\ phase' = "record_vars"
    /\ UNCHANGED <<pipeline_data, risk_loadings, risk_output, recorded,
                   pipeVars, factorVars, winVars, schedVars>>

\* record_vars(context, data), lines 111-113
RecordVars ==
    /\ phase = "record_vars" /\ error = NoError
    /\ recorded' = Some(Cardinality({a \in Assets : target[a] # 0}))
    /\ phase' = "before_trading_start"
    /\ UNCHANGED <<pipeline_data, risk_loadings, risk_output, target,
                   last_request, error, pipeVars, factorVars, winVars,
                   schedVars>>

Next == BeforeTradingStart \/ Rebalance \/ RecordVars

Spec == Init /\ [][Next]_vars

\* C3: every TargetPortfolio emitted by rebalance is dollar-neutral and has
\* gross exposure at most MAX_GROSS_LEVERAGE, after any sequence of
\* rebalances.
C3_NeutralAndGross ==
    /\ Net(target) = 0
    /\ Gross(target) <= MAX_GROSS_LEVERAGE

\* A fully invested portfolio emitted by a rebalance that followed another.
C3_Witness ==
    /\ phase = "record_vars"
    /\ IsSome(last_request) /\ IsSome(recorded)
    /\ Gross(target) = MAX_GROSS_LEVERAGE

\* C4: in every TargetPortfolio emitted by rebalance every weight w has
\* -2/TOTAL_POSITIONS <= w <= 2/TOTAL_POSITIONS, the value of both
\* MAX_SHORT_POSITION_SIZE and MAX_LONG_POSITION_SIZE.
C4_PositionBounds ==
    /\ MAX_SHORT_POSITION_SIZE * TOTAL_POSITIONS = 2 * WeightScale
    /\ MAX_LONG_POSITION_SIZE * TOTAL_POSITIONS = 2 * WeightScale
    /\ \A a \in Assets :
        /\ target[a] * TOTAL_POSITIONS <= 2 * WeightScale
        /\ target[a] * TOTAL_POSITIONS >= 0 - 2 * WeightScale

\* A portfolio with a long and a short position, emitted by rebalance.
C4_Witness ==
    /\ phase = "record_vars"
    /\ IsSome(last_request)
    /\ \E a \in Assets : target[a] > 0
    /\ \E a \in Assets : target[a] < 0

EmptyData == IsSome(pipeline_data) /\ Rows(The(pipeline_data)) = {}

\* C6 as stated: when the pipeline output of the date is empty, rebalance
\* is skipped: no order is sent and the held TargetPortfolio is unchanged.
C6_SkipOnEmptyData ==
    [][(phase = "rebalance" /\ EmptyData) =>
            (last_request' = last_request /\ target' = target)]_vars

ConstraintKinds(request) ==
    [i \in 1..Len(request.constraints) |-> request.constraints[i].kind]

\* C6 as the code has it: when the pipeline output of the date is empty,
\* rebalance is not skipped: it calls order_optimal_portfolio with an empty
\* alpha vector and the same four constraints, and no error is raised.
C6_OrdersOnEmptyData ==
    (phase = "record_vars" /\ EmptyData) =>
        /\ IsSome(last_request)
        /\ DOMAIN The(last_request).alphas = {}
        /\ ConstraintKinds(The(last_request)) =
                <<"MaxGrossExposure", "DollarNeutral", "RiskModelExposure",
                  "PositionConcentration">>
        /\ error = NoError

\* An empty pipeline output on a date on which positions are held.
C6_Witness ==
    /\ phase = "record_vars" /\ EmptyData
    /\ IsSome(last_request)
    /\ IsSome(recorded) /\ The(recorded) > 0

\* The constraints rebalance passes always admit a portfolio: the call never
\* raises.
NeverInfeasible == error = NoError

-----------------------------------------------------------------------------
(* initialize, lines 36-50: the two scheduled functions, and the platform's *)
(* clock running them.  A session is a trading day of the calendar; a run   *)
(* can start on any session of a week.                                      *)

MaxWeeks == 2           \* week changes followed

WeekDays == 1..5
SessionKinds == {"full", "half"}

\* half_days=True, in both schedule_function calls
HALF_DAYS_OFF == FALSE
HALF_DAYS == TRUE

\* date_rules.week_start(): the first session of the calendar week
week_start(hadSession) == ~hadSession
\* date_rules.every_day()
every_day == TRUE
\* Sessions on which a function scheduled with half_days runs.
RunsOn(kind, halfDays) == kind = "full" \/ halfDays

\* schedule_function(func=rebalance, week_start(), market_open(minutes=30))
RebalanceDue(hadSession, kind) ==
    week_start(hadSession) /\ RunsOn(kind, HALF_DAYS)
\* schedule_function(func=record_vars, every_day(), market_close())
RecordVarsDue(kind) == every_day /\ RunsOn(kind, HALF_DAYS)

InitSched ==
    /\ dow \in WeekDays
    /\ session \in SessionKinds
    /\ slot = "before_trading_start"
    /\ prior_session \in BOOLEAN
    /\ dow = 1 => ~prior_session
    /\ first_simulated = ~prior_session
    /\ rebalance_calls = 0
    /\ record_calls = 0
    /\ weeks = 0
    /\ PipeIdle /\ FactorIdle /\ WinIdle /\ AlgoIdle

\* The clock passes before_trading_start and reaches market_open + 30 min.
SessionOpens ==
    /\ slot = "before_trading_start"
    /\ slot' = "market_open_30"
    /\ UNCHANGED <<dow, session, prior_session, first_simulated,
                   rebalance_calls, record_calls, weeks, pipeVars, factorVars,
                   winVars, algoVars>>

\* market_open + 30 min on a session the rule selects: rebalance is called.
CallRebalance ==
    /\ slot = "market_open_30"
    /\ RebalanceDue(prior_session, session)
    /\ rebalance_calls' = rebalance_calls + 1
    /\ slot' = "market_close"
    /\ UNCHANGED <<dow, session, prior_session, first_simulated, record_calls,
                   weeks, pipeVars, factorVars, winVars, algoVars>>

\* market_open + 30 min on any other session.
NoRebalance ==
    /\ slot = "market_open_30"
    /\ ~RebalanceDue(prior_session, session)
    /\ slot' = "market_close"
    /\ UNCHANGED <<dow, session, prior_session, first_simulated,
                   rebalance_calls, record_calls, weeks, pipeVars, factorVars,
                   winVars, algoVars>>

\* The time market_close() selects: record_vars is called when it is due.
AtMarketClose ==
    /\ slot = "market_close"
    /\ record_calls' = IF RecordVarsDue(session) THEN record_calls + 1
                       ELSE record_calls
    /\ slot' = "session_end"
    /\ UNCHANGED <<dow, session, prior_session, first_simulated,
                   rebalance_calls, weeks, pipeVars, factorVars, winVars,
                   algoVars>>

\* The next session is later in the same week.
NextSessionSameWeek ==
    /\ slot = "session_end"
    /\ \E d \in WeekDays : d > dow /\ dow' = d
    /\ session' \in SessionKinds
    /\ prior_session' = TRUE
    /\ record_calls' = 0
    /\ slot' = "before_trading_start"
    /\ UNCHANGED <<first_simulated, rebalance_calls, weeks, pipeVars,
                   factorVars, winVars, algoVars>>

\* The next session is the first session of a later week.
NextSessionNewWeek ==
    /\ slot = "session_end"
    /\ weeks < MaxWeeks
    /\ dow' \in WeekDays
    /\ session' \in SessionKinds
    /\ prior_session' = FALSE
    /\ first_simulated' = TRUE
    /\ rebalance_calls' = 0
    /\ record_calls' = 0
    /\ weeks' = weeks + 1
    /\ slot' = "before_trading_start"
    /\ UNCHANGED <<pipeVars, factorVars, winVars, algoVars>>

NextSched ==
    \/ SessionOpens \/ CallRebalance \/ NoRebalance \/ AtMarketClose
    \/ NextSessionSameWeek \/ NextSessionNewWeek

SpecSched == InitSched /\ [][NextSched]_vars

\* C8 as stated: over any sequence of trading days after initialize,
\* rebalance is called exactly once in each trading week, on the week's first
\* trading day, and record_vars exactly once on every trading day, half days
\* included.  (Once a session of the week has ended, the week's call of
\* rebalance is past.)
C8_OncePerWeekOncePerDay ==
    slot = "session_end" => (record_calls = 1 /\ rebalance_calls = 1)

\* C8 as the code has it: rebalance is called exactly once in each trading
\* week whose first trading day is part of the run, on that day, and not at
\* all in a week the run enters after its first trading day; record_vars is
\* called exactly once on every trading day, half days included.
C8_OncePerSimulatedWeekStart ==
    /\ slot = "session_end" =>
        /\ record_calls = 1
        /\ rebalance_calls = (IF first_simulated THEN 1 ELSE 0)
    /\ rebalance_calls <= 1
    /\ record_calls <= 1
    /\ ~prior_session =>
            rebalance_calls =
                (IF slot \in {"market_close", "session_end"} THEN 1 ELSE 0)
    /\ slot \in {"before_trading_start", "market_open_30", "market_close"} =>
            record_calls = 0

\* The end of a half day that is the first trading day of a later week.
C8_Witness ==
    /\ slot = "session_end"
    /\ session = "half"
    /\ weeks > 0 /\ ~prior_session
    /\ rebalance_calls = 1 /\ record_calls = 1

====
